---------------------------- MODULE Spec2Model ----------------------------
(***************************************************************************)
(* Inventory service (main.js): one JSON document, inventory.json, read    *)
(* and rewritten whole by concurrent Express handlers, plus a directory of *)
(* photo files written by multer.                                          *)
(*                                                                         *)
(* A handler is an async function: it runs atomically between two awaits.  *)
(* Every await (readFile, unlink, writeFile) is a point where the other    *)
(* handlers may run, so each handler is cut into one action per await.     *)
(* fsp.writeFile opens the file with flag "w" (which empties it) and then  *)
(* writes the text: these are two steps, and a reader may come in between. *)
(***************************************************************************)
EXTENDS Integers, Sequences, FiniteSets, TLC

VARIABLES
  now,      \* Date.now(): the millisecond clock
  doc,      \* inventory.json: [state, items]
  files,    \* names of the files in CACHE_DIR, other than inventory.json
  pc,       \* per request: where its handler stands
  req,      \* per request: method, route and inputs (req.params, req.body, req.file)
  items,    \* per request: the handler's local array `items`
  resp,     \* per request: the response sent, [code, msg]
  unlinking, \* per request: the path given to the pending fsp.unlink
  faults,   \* storage faults injected so far
  before,   \* history: per request, the document its loadInventory read
  live,     \* history: ids registered (201) and not deleted (200) since
  gone,     \* history: [id, file] of the items whose Delete returned 200, up to the
            \* next Register of that id; file is Null once that name is stored anew
  erased,   \* history: per Delete, the photo file of the item it removes; Null once
            \* that name is stored anew
  late      \* history: per request, whether it began after a Delete of its id returned 200

vars ==
  <<now, doc, files, pc, req, items, resp, unlinking, faults, before, live, gone,
    erased, late>>

---------------------------------------------------------------------------
(* Bounds of the model. *)

\* number of requests in one run
NumReqs == 3
\* requests whose handlers may be in flight together
MaxInFlight == 2
\* the clock runs from 1 to MaxClock
MaxClock == 2
\* Math.round(Math.random() * 1e9) is drawn from 0 .. MaxRand
MaxRand == 1
\* storage faults (a failing open or write of inventory.json) in one run
MaxFaults == 1

Reqs == 1 .. NumReqs

---------------------------------------------------------------------------
(* Values. *)

\* JavaScript null, as stored in photoFilename and photoUrl
Null == "null"

\* JavaScript undefined: a body field that was not sent
Undefined == <<"undefined">>

\* Text fields are sequences of characters; " " is the only whitespace used.
Blank == <<" ">>
Drill == <<"D">>
Hammer == <<"H">>
Note == <<"n">>

RECURSIVE TrimStart(_)
TrimStart(s) ==
  IF s # <<>> /\ Head(s) = " " THEN TrimStart(Tail(s)) ELSE s

RECURSIVE TrimEnd(_)
TrimEnd(s) ==
  IF s # <<>> /\ s[Len(s)] = " "
    THEN TrimEnd(SubSeq(s, 1, Len(s) - 1))
    ELSE s

\* String.prototype.trim
Trim(s) == TrimEnd(TrimStart(s))

\* the check without trim: `!inventory_name`
NameMissingUntrimmed(name) == name = Undefined \/ name = <<>>

\* `!inventory_name || inventory_name.trim() === ""` of POST /register
NameMissing(name) == name = Undefined \/ name = <<>> \/ Trim(name) = <<>>

\* `inventory_name?.trim()` of PUT /inventory/:id, as a condition
NameGiven(name) == name # Undefined /\ Trim(name) # <<>>

\* `description || ""` of POST /register
DescOrEmpty(desc) == IF desc = Undefined \/ desc = <<>> THEN <<>> ELSE desc

\* String(Date.now())
NewId(t) == ToString(t)

\* `/inventory/${id}/photo`
PhotoUrl(id) == "/inventory/" \o id \o "/photo"

\* multer's filename callback: Date.now() + "-" + random + (extname || ".jpg")
StoredName(t, r, ext) ==
  ToString(t) \o "-" \o ToString(r) \o (IF ext = "" THEN ".jpg" ELSE ext)

\* path.extname(file.originalname) of the uploads tried
OrigExts == {""}

\* the inputs tried: every case of a text field when requests run one at a
\* time, one blank and one plain name when they run together
AllNames == {Undefined, <<>>, Blank, Drill, Hammer}
AllDescs == {Undefined, <<>>, Note}
SomeNames == {Blank, Hammer}
SomeDescs == {Undefined}
\* the ids requests name: the old item's, and the one given at the first tick
ReqIds == {"0", NewId(1)}

---------------------------------------------------------------------------
(* The persisted document. *)

\* doc.state: "absent" (no file), "valid" (a complete JSON text, whose array is
\* doc.items), "truncated" (emptied by an open with flag "w", nothing written yet)
\* or "garbled" (a shorter text written over a longer one); doc.len is the
\* length of the file in characters.
Absent == [state |-> "absent", items |-> <<>>, len |-> 0]
Truncated == [state |-> "truncated", items |-> <<>>, len |-> 0]
Garbled(n) == [state |-> "garbled", items |-> <<>>, len |-> n]

\* the length of JSON.stringify(v) for a string of n characters, or for null
QuotedLen(n) == n + 2
NullLen == 4

\* the length of one item in JSON.stringify(items, null, 2): "  {", five lines
\* `    "key": value` separated by ",\n", and "\n  }"
ItemLen(it) ==
  LET line(key, val) == 4 + QuotedLen(Len(key)) + 2 + val
      str(v) == IF v = Null THEN NullLen ELSE QuotedLen(Len(v))
  IN 3 + 1 + line("id", QuotedLen(Len(it.id)))
       + 2 + line("inventory_name", QuotedLen(Len(it.inventory_name)))
       + 2 + line("description", QuotedLen(Len(it.description)))
       + 2 + line("photoFilename", str(it.photoFilename))
       + 2 + line("photoUrl", str(it.photoUrl))
       + 1 + 3

RECURSIVE ItemsLen(_)
ItemsLen(its) ==
  IF its = <<>> THEN 0
  ELSE ItemLen(Head(its)) + (IF Len(its) > 1 THEN 2 ELSE 0) + ItemsLen(Tail(its))

\* the length of JSON.stringify(items, null, 2): "[]", or "[\n" items "\n]"
TextLen(its) == IF its = <<>> THEN 2 ELSE 2 + ItemsLen(its) + 2

\* JSON.stringify(items, null, 2), as the content of the file
Stringify(its) == [state |-> "valid", items |-> its, len |-> TextLen(its)]

\* a write that puts nothing in the file
WrittenNothing(d, its) == d

\* The write of fsp.writeFile: the text goes to offset 0 of the file this
\* request opened. Whatever another writer put there since, beyond the end of
\* the text, stays.
Written(d, its) ==
  IF TextLen(its) >= d.len THEN Stringify(its) ELSE Garbled(d.len)

\* loadInventory: readFile then JSON.parse; any error gives []
loadInventory(d) == IF d.state = "valid" THEN d.items ELSE <<>>

\* items.findIndex((it) => it.id === id), 0 for -1
FindIndex(its, id) ==
  IF \E i \in 1 .. Len(its) : its[i].id = id
    THEN CHOOSE i \in 1 .. Len(its) :
           its[i].id = id /\ \A j \in 1 .. (i - 1) : its[j].id # id
    ELSE 0

\* findItem(items, id), for an id that is there
Found(its, id) == its[FindIndex(its, id)]

\* items.splice(index, 1)
Splice(its, i) == SubSeq(its, 1, i - 1) \o SubSeq(its, i + 1, Len(its))

Item(id, name, desc, photoFilename, photoUrl) ==
  [id |-> id, inventory_name |-> name, description |-> desc,
   photoFilename |-> photoFilename, photoUrl |-> photoUrl]

---------------------------------------------------------------------------
(* Requests and responses. *)

NoReq == [op |-> "none", id |-> "", name |-> Undefined, desc |-> Undefined,
          file |-> Null]
NoResp == [code |-> 0, msg |-> ""]
Response(code, msg) == [code |-> code, msg |-> msg]

\* An await that rejects: the handler stops there and sends no success response.
Rejected == Response(500, "rejected")

InFlight == {p \in Reqs : pc[p] \notin {"idle", "done"}}

\* a cache directory left by an earlier run: one item with its photo
OldItem == Item("0", Drill, <<>>, "0-0.jpg", PhotoUrl("0"))

Init ==
  /\ now = 1
  /\ \/ doc = Absent /\ files = {}
     \/ doc = Stringify(<<OldItem>>) /\ files = {"0-0.jpg"}
  /\ pc = [p \in Reqs |-> "idle"]
  /\ req = [p \in Reqs |-> NoReq]
  /\ items = [p \in Reqs |-> <<>>]
  /\ resp = [p \in Reqs |-> NoResp]
  /\ unlinking = [p \in Reqs |-> Null]
  /\ faults = 0
  /\ before = [p \in Reqs |-> Absent]
  /\ live = {doc.items[i].id : i \in 1 .. Len(doc.items)}
  /\ gone = {}
  /\ erased = [p \in Reqs |-> Null]
  /\ late = [p \in Reqs |-> FALSE]

---------------------------------------------------------------------------
(* The clock. *)

Tick ==
  /\ now < MaxClock
  /\ now' = now + 1
  /\ UNCHANGED <<doc, files, pc, req, items, resp, unlinking, faults, before, live,
                 gone, erased, late>>

---------------------------------------------------------------------------
(* A request arrives. Request p is admitted when fewer than k handlers are    *)
(* in flight; requests are taken in the order of their numbers.               *)

Admit(p, k) ==
  /\ pc[p] = "idle"
  /\ \A q \in Reqs : q < p => pc[q] # "idle"
  /\ Cardinality(InFlight) < k

Request(op, id, name, desc, file) ==
  [op |-> op, id |-> id, name |-> name, desc |-> desc, file |-> file]

GoneIds == {g.id : g \in gone}

\* a request that goes on to `await loadInventory()`
Begin(p, r) ==
  /\ req' = [req EXCEPT ![p] = r]
  /\ pc' = [pc EXCEPT ![p] = "load"]
  /\ late' = [late EXCEPT ![p] = r.id \in GoneIds]
  /\ UNCHANGED <<now, doc, items, resp, unlinking, faults, before, live>>

\* upload.single("photo"): multer writes the file part, if any, under the
\* name its filename callback makes, over a file of that name if there is one
Upload(hasFile, r, ext) == IF hasFile THEN StoredName(now, r, ext) ELSE Null

Stored(file) == IF file = Null THEN files ELSE files \cup {file}

\* history: the name of a deleted item's file now names the new upload
Restored(file) ==
  /\ gone' = {[g EXCEPT !.file = IF file # Null /\ @ = file THEN Null ELSE @] :
               g \in gone}
  /\ erased' = [q \in Reqs |->
                  IF file # Null /\ erased[q] = file THEN Null ELSE erased[q]]

\* POST /register: the upload, then the check of inventory_name (of a request
\* answered 400 the method and the name stay for the record)
StartRegister(p, k, names, descs) ==
  /\ Admit(p, k)
  /\ \E name \in names, desc \in descs, hasFile \in BOOLEAN,
        r \in 0 .. MaxRand, ext \in OrigExts :
       LET file == Upload(hasFile, r, ext)
           rq == Request("register", "", name, desc, file)
       IN /\ (~hasFile => r = 0)
          /\ files' = Stored(file)
          /\ Restored(file)
          /\ IF NameMissing(name)
               THEN /\ req' = [req EXCEPT ![p] = Request("register", "", name,
                                                          Undefined, Null)]
                    /\ pc' = [pc EXCEPT ![p] = "done"]
                    /\ resp' = [resp EXCEPT
                         ![p] = Response(400, "inventory_name is required")]
                    /\ UNCHANGED <<now, doc, items, unlinking, faults, before,
                                   live, late>>
               ELSE Begin(p, rq)

\* PUT /inventory/:id
StartUpdate(p, k, names, descs) ==
  /\ Admit(p, k)
  /\ \E id \in ReqIds, name \in names, desc \in descs :
       Begin(p, Request("update", id, name, desc, Null))
  /\ UNCHANGED <<files, gone, erased>>

\* DELETE /inventory/:id
StartDelete(p, k) ==
  /\ Admit(p, k)
  /\ \E id \in ReqIds : Begin(p, Request("delete", id, Undefined, Undefined, Null))
  /\ UNCHANGED <<files, gone, erased>>

\* GET /inventory/:id
StartGet(p, k) ==
  /\ Admit(p, k)
  /\ \E id \in ReqIds : Begin(p, Request("get", id, Undefined, Undefined, Null))
  /\ UNCHANGED <<files, gone, erased>>

\* GET /inventory/:id/photo
StartFetchPhoto(p, k) ==
  /\ Admit(p, k)
  /\ \E id \in ReqIds : Begin(p, Request("photo", id, Undefined, Undefined, Null))
  /\ UNCHANGED <<files, gone, erased>>

\* PUT /inventory/:id/photo: the upload
StartReplacePhoto(p, k) ==
  /\ Admit(p, k)
  /\ \E id \in ReqIds, hasFile \in BOOLEAN, r \in 0 .. MaxRand, ext \in OrigExts :
       LET file == Upload(hasFile, r, ext)
       IN /\ (~hasFile => r = 0)
          /\ files' = Stored(file)
          /\ Restored(file)
          /\ Begin(p, Request("replace", id, Undefined, Undefined, file))

---------------------------------------------------------------------------
(* The steps of a handler. Each either goes on to its next await (Go) or      *)
(* sends its response and returns (Reply); the request and the handler's      *)
(* locals are dropped on return, only the method stays for the record.        *)

Go(p, where, its, path) ==
  /\ pc' = [pc EXCEPT ![p] = where]
  /\ items' = [items EXCEPT ![p] = its]
  /\ unlinking' = [unlinking EXCEPT ![p] = path]
  /\ UNCHANGED <<req, resp>>

\* res.status(code).json(...): the handler returns
Reply(p, r) ==
  /\ resp' = [resp EXCEPT ![p] = r]
  /\ pc' = [pc EXCEPT ![p] = "done"]
  /\ req' = [req EXCEPT ![p] = Request(@.op, "", Undefined, Undefined, Null)]
  /\ items' = [items EXCEPT ![p] = <<>>]
  /\ unlinking' = [unlinking EXCEPT ![p] = Null]
  /\ before' = [before EXCEPT ![p] = Absent]
  /\ erased' = [erased EXCEPT ![p] = Null]

\* `const items = await loadInventory()`: the read of the document
Load(p) ==
  /\ pc[p] = "load"
  /\ Go(p, "loaded", loadInventory(doc), Null)
  /\ before' = [before EXCEPT ![p] = doc]
  /\ UNCHANGED <<now, doc, files, faults, live, gone, erased, late>>

\* `x.photoFilename` is set and fs.existsSync finds the file
MustUnlink(it) == it.photoFilename # Null /\ it.photoFilename \in files

\* the item POST /register makes
NewItem(r, id) ==
  Item(id, r.name, DescOrEmpty(r.desc), r.file,
       IF r.file # Null THEN PhotoUrl(id) ELSE Null)

\* POST /register after the load: newId, newItem, items.push(newItem), and the
\* call of saveInventory
RegisterPush(p) ==
  /\ pc[p] = "loaded" /\ req[p].op = "register"
  /\ LET newId == NewId(now)
     IN /\ Go(p, "save", Append(items[p], NewItem(req[p], newId)), Null)
        /\ gone' = {g \in gone : g.id # newId}
        /\ late' = [q \in Reqs |->
                      IF q \in InFlight /\ req[q].id = newId THEN FALSE ELSE late[q]]
  /\ UNCHANGED <<now, doc, files, faults, before, live, erased>>

\* the assignments with the name tested as `if (inventory_name)`, without trim
UpdatedUntrimmed(it, r) ==
  [it EXCEPT
     !.inventory_name = IF r.name \notin {Undefined, <<>>} THEN r.name ELSE @,
     !.description = IF r.desc # Undefined THEN r.desc ELSE @]

\* the two assignments of PUT /inventory/:id
Updated(it, r) ==
  [it EXCEPT
     !.inventory_name = IF NameGiven(r.name) THEN r.name ELSE @,
     !.description = IF r.desc # Undefined THEN r.desc ELSE @]

\* PUT /inventory/:id after the load
UpdateApply(p) ==
  /\ pc[p] = "loaded" /\ req[p].op = "update"
  /\ LET i == FindIndex(items[p], req[p].id)
     IN IF i = 0
          THEN Reply(p, Response(404, "Item not found"))
          ELSE /\ Go(p, "save", [items[p] EXCEPT ![i] = Updated(@, req[p])], Null)
               /\ UNCHANGED <<before, erased>>
  /\ UNCHANGED <<now, doc, files, faults, live, gone, late>>

\* DELETE /inventory/:id after the load: findIndex, splice, existsSync
DeleteSplice(p) ==
  /\ pc[p] = "loaded" /\ req[p].op = "delete"
  /\ LET i == FindIndex(items[p], req[p].id)
     IN IF i = 0
          THEN Reply(p, Response(404, "Item not found"))
          ELSE /\ IF MustUnlink(items[p][i])
                    THEN Go(p, "unlink", Splice(items[p], i),
                            items[p][i].photoFilename)
                    ELSE Go(p, "save", Splice(items[p], i), Null)
               /\ erased' = [erased EXCEPT ![p] = items[p][i].photoFilename]
               /\ UNCHANGED before
  /\ UNCHANGED <<now, doc, files, faults, live, gone, late>>

\* the first assignment alone: photoFilename set, photoUrl left as it was
RephotoedNameOnly(it, r) ==
  IF r.file # Null THEN [it EXCEPT !.photoFilename = r.file] ELSE it

\* the two assignments of PUT /inventory/:id/photo, made when req.file is set
Rephotoed(it, r) ==
  IF r.file # Null
    THEN [it EXCEPT !.photoFilename = r.file, !.photoUrl = PhotoUrl(r.id)]
    ELSE it

\* PUT /inventory/:id/photo after the load: findItem, existsSync
ReplaceCheck(p) ==
  /\ pc[p] = "loaded" /\ req[p].op = "replace"
  /\ LET i == FindIndex(items[p], req[p].id)
     IN IF i = 0
          THEN IF req[p].file # Null
                 THEN Go(p, "cleanup", items[p], req[p].file) /\ UNCHANGED <<before, erased>>
                 ELSE Reply(p, Response(404, "Item not found"))
          ELSE /\ IF MustUnlink(items[p][i])
                    THEN Go(p, "unlink", items[p], items[p][i].photoFilename)
                    ELSE Go(p, "save",
                            [items[p] EXCEPT ![i] = Rephotoed(@, req[p])], Null)
               /\ UNCHANGED <<before, erased>>
  /\ UNCHANGED <<now, doc, files, faults, live, gone, late>>

\* an unlink that removes nothing
UnlinkedNothing(path) == files

\* fsp.unlink(path) on a file that is there
Unlinked(path) == files \ {path}

\* the pending unlink of DELETE or of PUT photo runs: the file is removed and
\* the handler goes on to saveInventory (PUT photo: after its two
\* assignments), or the file is gone and the promise rejects with ENOENT
Unlink(p) ==
  /\ pc[p] = "unlink"
  /\ IF unlinking[p] \in files
       THEN /\ files' = Unlinked(unlinking[p])
            /\ Go(p, "save",
                  IF req[p].op = "replace"
                    THEN [items[p] EXCEPT
                            ![FindIndex(items[p], req[p].id)] = Rephotoed(@, req[p])]
                    ELSE items[p],
                  Null)
            /\ UNCHANGED <<before, erased>>
       ELSE /\ Reply(p, Rejected)
            /\ UNCHANGED files
  /\ UNCHANGED <<now, doc, faults, live, gone, late>>

\* PUT photo on an unknown id: `await fsp.unlink(req.file.path)`, then 404
ReplaceCleanup(p) ==
  /\ pc[p] = "cleanup"
  /\ IF unlinking[p] \in files
       THEN /\ files' = Unlinked(unlinking[p])
            /\ Reply(p, Response(404, "Item not found"))
       ELSE /\ Reply(p, Rejected)
            /\ UNCHANGED files
  /\ UNCHANGED <<now, doc, faults, live, gone, late>>

\* GET /inventory/:id after the load
Get(p) ==
  /\ pc[p] = "loaded" /\ req[p].op = "get"
  /\ Reply(p, IF FindIndex(items[p], req[p].id) = 0
                THEN Response(404, "Item not found")
                ELSE Response(200, "item"))
  /\ UNCHANGED <<now, doc, files, faults, live, gone, late>>

\* the handler without its second message: a missing file is "Photo not found"
FetchPhotoMasked(p) ==
  /\ pc[p] = "loaded" /\ req[p].op = "photo"
  /\ LET i == FindIndex(items[p], req[p].id)
     IN Reply(p, IF i = 0 \/ items[p][i].photoFilename = Null
                      \/ items[p][i].photoFilename \notin files
                   THEN Response(404, "Photo not found")
                   ELSE Response(200, "image/jpeg"))
  /\ UNCHANGED <<now, doc, files, faults, live, gone, late>>

\* GET /inventory/:id/photo after the load
FetchPhoto(p) ==
  /\ pc[p] = "loaded" /\ req[p].op = "photo"
  /\ LET i == FindIndex(items[p], req[p].id)
     IN Reply(p, IF i = 0 \/ items[p][i].photoFilename = Null
                   THEN Response(404, "Photo not found")
                   ELSE IF items[p][i].photoFilename \notin files
                     THEN Response(404, "Photo file not found")
                     ELSE Response(200, "image/jpeg"))
  /\ UNCHANGED <<now, doc, files, faults, live, gone, late>>

---------------------------------------------------------------------------
(* saveInventory: fsp.writeFile(INVENTORY_FILE, text). *)

\* the open with flag "w": the file is created or emptied
Opened(d) == Truncated

SaveOpen(p) ==
  /\ pc[p] = "save"
  /\ doc' = Opened(doc)
  /\ Go(p, "write", items[p], Null)
  /\ UNCHANGED <<now, files, faults, before, live, gone, erased, late>>

\* the response each handler sends after `await saveInventory(items)`
Success(r) ==
  CASE r.op = "register" -> Response(201, "item")
    [] r.op = "delete" -> Response(200, "Deleted")
    [] OTHER -> Response(200, "item")

\* the write, and the rest of the handler: its response
SaveWrite(p) ==
  /\ pc[p] = "write"
  /\ doc' = Written(doc, items[p])
  /\ Reply(p, Success(req[p]))
  /\ live' = CASE req[p].op = "register" -> live \cup {items[p][Len(items[p])].id}
               [] req[p].op = "delete" -> live \ {req[p].id}
               [] OTHER -> live
  /\ gone' = IF req[p].op = "delete"
               THEN gone \cup {[id |-> req[p].id,
                                file |-> erased[p]]}
               ELSE gone
  /\ UNCHANGED <<now, files, faults, late>>

\* the open fails (EACCES, EMFILE, ...): writeFile rejects, the file is as it was
SaveOpenFails(p) ==
  /\ pc[p] = "save"
  /\ faults < MaxFaults
  /\ faults' = faults + 1
  /\ Reply(p, Rejected)
  /\ UNCHANGED <<now, doc, files, live, gone, late>>

\* the write fails (ENOSPC, EIO, ...): writeFile rejects, nothing was written
SaveWriteFails(p) ==
  /\ pc[p] = "write"
  /\ faults < MaxFaults
  /\ faults' = faults + 1
  /\ Reply(p, Rejected)
  /\ UNCHANGED <<now, doc, files, live, gone, late>>

\* saveInventory(await loadInventory()) on document d, nothing in between
RoundTrip(d) == Written(Opened(d), loadInventory(d))

---------------------------------------------------------------------------
(* The service: requests arrive while others are in flight. *)

Step(p) ==
  \/ Load(p)
  \/ RegisterPush(p)
  \/ UpdateApply(p)
  \/ DeleteSplice(p)
  \/ ReplaceCheck(p)
  \/ Unlink(p)
  \/ ReplaceCleanup(p)
  \/ Get(p)
  \/ FetchPhoto(p)
  \/ SaveOpen(p)
  \/ SaveWrite(p)

Next ==
  \/ Tick
  \/ \E p \in Reqs :
       \/ StartRegister(p, MaxInFlight, SomeNames, SomeDescs)
       \/ StartUpdate(p, MaxInFlight, SomeNames, SomeDescs)
       \/ StartDelete(p, MaxInFlight)
       \/ StartGet(p, MaxInFlight)
       \/ StartFetchPhoto(p, MaxInFlight)
       \/ StartReplacePhoto(p, MaxInFlight)
       \/ Step(p)

Spec == Init /\ [][Next]_vars

\* One request at a time, each run to its response, with every input.
SeqNext ==
  \/ Tick
  \/ \E p \in Reqs :
       \/ StartRegister(p, 1, AllNames, AllDescs)
       \/ StartUpdate(p, 1, AllNames, AllDescs)
       \/ StartDelete(p, 1)
       \/ StartGet(p, 1)
       \/ StartFetchPhoto(p, 1)
       \/ StartReplacePhoto(p, 1)
       \/ Step(p)

SeqSpec == Init /\ [][SeqNext]_vars

\* One request at a time, on a disk whose open or write may fail.
FaultNext ==
  \/ Tick
  \/ \E p \in Reqs :
       \/ StartRegister(p, 1, SomeNames, SomeDescs)
       \/ StartUpdate(p, 1, SomeNames, SomeDescs)
       \/ StartDelete(p, 1)
       \/ StartGet(p, 1)
       \/ StartFetchPhoto(p, 1)
       \/ StartReplacePhoto(p, 1)
       \/ Step(p)
       \/ SaveOpenFails(p)
       \/ SaveWriteFails(p)

FaultSpec == Init /\ [][FaultNext]_vars

---------------------------------------------------------------------------
(* Properties. *)

Mutating == {"register", "update", "delete", "replace"}

Done == {p \in Reqs : pc[p] = "done"}

\* the indices of the persisted items that this run registered
Registered(d) == {i \in 1 .. Len(d.items) : d.items[i].id # OldItem.id}

Ids(d) == {d.items[i].id : i \in 1 .. Len(d.items)}

\* every request so far was a Register, and each has returned 201
AllRegistered ==
  /\ Done # {}
  /\ \A p \in Reqs :
       \/ pc[p] = "idle"
       \/ pc[p] = "done" /\ req[p].op = "register" /\ resp[p].code = 201

\* C1: once N Register requests (and no others) have all returned 201, each
\* with an id of its own, the persisted collection holds N new items with N
\* distinct ids: none is lost.
C1_NoRegistrationLost ==
  (AllRegistered /\ Cardinality(live \ {OldItem.id}) = Cardinality(Done)) =>
    /\ doc.state = "valid"
    /\ Cardinality(Registered(doc)) = Cardinality(Done)
    /\ Cardinality({doc.items[i].id : i \in Registered(doc)}) = Cardinality(Done)

\* the mutating handlers that have loaded the collection and not yet saved it
InCycle ==
  {p \in Reqs : req[p].op \in Mutating
                  /\ pc[p] \in {"loaded", "unlink", "cleanup", "save", "write"}}

\* C2: at most one mutating handler is between its loadInventory and the end
\* of its saveInventory.
C2_OneWriterAtATime == Cardinality(InCycle) <= 1

\* C3: no two items of the persisted collection have the same id.
C3_UniqueIds ==
  \A i, j \in 1 .. Len(doc.items) :
    i # j => doc.items[i].id # doc.items[j].id

\* every photo reference of the persisted collection names a file that exists
NoDangling(d, fs) ==
  \A i \in 1 .. Len(d.items) :
    d.items[i].photoFilename # Null => d.items[i].photoFilename \in fs

\* no Register, Update or Delete is unfinished, and no ReplacePhoto was made
AtRest == InFlight = {} /\ \A p \in Reqs : req[p].op # "replace"

\* C4: with Register, Update and Delete run one at a time, the collection
\* persisted after each of them holds exactly one entry per id registered and
\* not deleted, no other entry, and no photo reference to a missing file.
C4_OneEntryPerLiveId ==
  AtRest =>
    /\ doc.state \in {"absent", "valid"}
    /\ \A id \in live :
         Cardinality({i \in 1 .. Len(doc.items) : doc.items[i].id = id}) = 1
    /\ Ids(doc) \subseteq live
    /\ NoDangling(doc, files)

\* C5: no step of a Delete or ReplacePhoto handler takes the persisted state
\* from one without a dangling photo reference to one with a dangling one.
C5_NoDanglingAtAnyStep ==
  [][\A p \in Reqs :
       (req[p].op \in {"delete", "replace"} /\ pc'[p] # pc[p]
          /\ NoDangling(doc, files))
         => NoDangling(doc', files')]_vars

\* the item of id `id` has a photo reference in document d
HasPhoto(d, id) ==
  FindIndex(d.items, id) # 0 /\ Found(d.items, id).photoFilename # Null

\* exactly one photo file is left for the item: the one its persisted
\* reference names; neither the old file nor the uploaded one is left beside it
OnePhotoLeft(d, fs, id, old, new) ==
  /\ HasPhoto(d, id)
  /\ Found(d.items, id).photoFilename \in fs
  /\ \A f \in {old, new} \ {Null, Found(d.items, id).photoFilename} : f \notin fs

\* C6: when ReplacePhoto returns 200 on an item that had a photo, exactly one
\* photo file is left for that item.
C6_OnePhotoAfterReplace ==
  [][\A p \in Reqs :
       (req[p].op = "replace" /\ pc[p] = "write" /\ pc'[p] = "done"
          /\ resp'[p].code = 200 /\ HasPhoto(before[p], req[p].id))
         => OnePhotoLeft(doc', files', req[p].id,
                         Found(before[p].items, req[p].id).photoFilename,
                         req[p].file)]_vars

\* C7: the persisted document is at every moment a complete document (or not
\* there yet), never an empty or partial one.
C7_SaveIsAtomic == doc.state \in {"absent", "valid"}

Corrupt(d) == d.state \in {"truncated", "garbled"}

\* C8: a handler whose load found a corrupt document does not go on with an
\* empty collection, and so never writes the document.
C8_CorruptLoadStops ==
  \A p \in Reqs :
    pc[p] \in {"loaded", "unlink", "cleanup", "save", "write"}
      => ~Corrupt(before[p])

\* C9: when saveInventory fails in a handler that found a valid document, no
\* success response is sent and the persisted document is still that one.
C9_FailedSaveChangesNothing ==
  [][\A p \in Reqs :
       (faults' # faults /\ pc'[p] # pc[p] /\ before[p].state = "valid")
         => /\ resp'[p].code \notin {200, 201}
            /\ doc' = before[p]]_vars

\* C10: with Update, ReplacePhoto and Delete requests in flight together (and
\* no Register, so that no id is given again), a Get or FetchPhoto that began
\* after Delete(id) returned 200 returns 404, and the photo file of the
\* deleted item is not on disk.
C10_DeletedStaysDeleted ==
  (\A q \in Reqs : req[q].op # "register") =>
    /\ \A p \in Reqs :
         (pc[p] = "done" /\ req[p].op \in {"get", "photo"} /\ late[p])
           => resp[p].code = 404
    /\ \A g \in gone : g.file # Null => g.file \notin files

\* a text of whitespace only, the empty text included
IsBlank(s) == \A k \in 1 .. Len(s) : s[k] = " "

\* the handler of request p sends its success response in this step
Succeeds(p, op) ==
  /\ req[p].op = op /\ pc[p] = "write" /\ pc'[p] = "done"
  /\ resp'[p].code \in {200, 201}

\* C11: an Update that returns 200 leaves the stored name when the name is
\* absent or blank and replaces it otherwise, replaces the description when
\* one is supplied (the empty text too) and leaves it when absent; the
\* item's id and photo reference and every other item stay as they were.
C11_UpdateChangesOnlySupplied ==
  [][\A p \in Reqs :
       Succeeds(p, "update") =>
         LET r == req[p]
             old == before[p].items
             i == FindIndex(old, r.id)
         IN /\ i # 0
            /\ doc'.state = "valid"
            /\ Len(doc'.items) = Len(old)
            /\ \A j \in 1 .. Len(old) : j # i => doc'.items[j] = old[j]
            /\ doc'.items[i].id = old[i].id
            /\ doc'.items[i].photoFilename = old[i].photoFilename
            /\ doc'.items[i].photoUrl = old[i].photoUrl
            /\ doc'.items[i].inventory_name =
                 (IF r.name = Undefined \/ IsBlank(r.name)
                    THEN old[i].inventory_name ELSE r.name)
            /\ doc'.items[i].description =
                 (IF r.desc = Undefined THEN old[i].description ELSE r.desc)]_vars

\* an Update has returned 200 and the old item now has a description, with
\* its name, id and photo reference as before
C11_DescriptionReplaced ==
  /\ \E p \in Reqs : pc[p] = "done" /\ req[p].op = "update" /\ resp[p].code = 200
  /\ doc.state = "valid"
  /\ \E i \in 1 .. Len(doc.items) :
       doc.items[i] = [OldItem EXCEPT !.description = Note]

\* C12: a Delete removes no file but the photo of the item it removes; when
\* it returns 200 no file is left under that photo's name, and the persisted
\* collection is the one it loaded without that one item, the others as
\* they were and in their order.
C12_DeleteRemovesOneItemOneFile ==
  [][\A p \in Reqs :
       (req'[p].op = "delete" /\ pc'[p] # pc[p]) =>
         LET old == before[p].items
             i == FindIndex(old, req[p].id)
             photo == IF pc[p] \in {"loaded", "unlink", "save", "write"} /\ i # 0
                        THEN old[i].photoFilename
                        ELSE Null
         IN /\ files' \subseteq files
            /\ files \ files' \subseteq {photo} \ {Null}
            /\ Succeeds(p, "delete") =>
                 /\ photo # Null => photo \notin files'
                 /\ doc'.state = "valid"
                 /\ Len(doc'.items) = Len(old) - 1
                 /\ \A j \in 1 .. Len(doc'.items) :
                      doc'.items[j] = IF j < i THEN old[j] ELSE old[j + 1]]_vars

\* only Register and Delete were requested, a Delete has returned 200, the
\* old item's photo is gone and an item registered since is still there
C12_OldItemDeleted ==
  /\ \A q \in Reqs : req[q].op \in {"none", "register", "delete"}
  /\ \E p \in Reqs : pc[p] = "done" /\ req[p].op = "delete" /\ resp[p].code = 200
  /\ OldItem.photoFilename \notin files
  /\ doc.state = "valid" /\ doc.items # <<>>
  /\ OldItem.id \notin Ids(doc)

\* C13: an Update, Delete or ReplacePhoto on an id that is not in the
\* collection returns 404 and leaves the persisted state as it was before
\* the request: no step rewrites the document, and the only file removed is
\* the one uploaded with the request, never a photo that was there before
\* it (the photo of an item).
C13_RejectedChangesNothing ==
  [][\A p \in Reqs :
       (/\ req[p].op \in {"update", "delete", "replace"}
        /\ pc[p] \in {"loaded", "cleanup"} /\ pc'[p] # pc[p]
        /\ FindIndex(items[p], req[p].id) = 0)
         => /\ doc' = doc
            /\ files' = files \ (IF pc'[p] = "done" THEN {req[p].file} ELSE {})
            /\ \A i \in 1 .. Len(doc.items) :
                 doc.items[i].photoFilename \in files
                   => doc.items[i].photoFilename \in files'
            /\ pc'[p] = "done" => resp'[p].code = 404]_vars

\* C14: a Register is answered 400 exactly when its name is absent or blank,
\* and then the document is not touched; a Register that returns 201 has
\* appended one item to the collection it loaded, with the name given, the
\* description given or the empty text, and a photo reference exactly when
\* a photo was uploaded.
C14_RegisterValidatesName ==
  [][\A p \in Reqs :
       /\ (pc[p] = "idle" /\ req'[p].op = "register") =>
            /\ (req'[p].name = Undefined \/ IsBlank(req'[p].name))
                 <=> (pc'[p] = "done" /\ resp'[p].code = 400)
            /\ pc'[p] \in {"done", "load"}
            /\ doc' = doc
       /\ Succeeds(p, "register") =>
            LET r == req[p]
                old == before[p].items
                n == Len(old) + 1
            IN /\ resp'[p].code = 201
               /\ doc'.state = "valid"
               /\ Len(doc'.items) = n
               /\ \A j \in 1 .. Len(old) : doc'.items[j] = old[j]
               /\ doc'.items[n].inventory_name = r.name
               /\ doc'.items[n].description =
                    (IF r.desc = Undefined THEN <<>> ELSE r.desc)
               /\ doc'.items[n].photoFilename = r.file
               /\ doc'.items[n].photoUrl # Null <=> r.file # Null]_vars

\* one Register was answered 400 and another 201, and the item of the second,
\* sent without a photo, is in the document
C14_OneRejectedOneRegistered ==
  /\ \E p \in Reqs : pc[p] = "done" /\ req[p].op = "register" /\ resp[p].code = 400
  /\ \E p \in Reqs : pc[p] = "done" /\ req[p].op = "register" /\ resp[p].code = 201
  /\ doc.state = "valid"
  /\ \E i \in 1 .. Len(doc.items) :
       /\ doc.items[i].inventory_name = Hammer /\ doc.items[i].description = <<>>
       /\ doc.items[i].photoFilename = Null /\ doc.items[i].photoUrl = Null

\* C15: a Delete or ReplacePhoto that has found its item's photo file and
\* then comes to remove it raises no error, whether or not the file is still
\* there: it goes on to save its change.
C15_UnlinkIsIdempotent ==
  [][\A p \in Reqs :
       (pc[p] = "unlink" /\ pc'[p] # pc[p])
         => pc'[p] = "save" /\ resp'[p] # Rejected]_vars

\* the answer to a FetchPhoto of an item that is absent or has no photo
NoPhoto == Response(404, "Photo not found")

\* C16: FetchPhoto returns the photo (200) exactly when the item is in the
\* collection, has a photo reference and the file it names exists; it
\* returns the 404 "no photo" when the item is absent or has no reference;
\* and when the reference names a missing file its answer is neither the
\* photo nor that 404.
C16_FetchPhotoOutcomes ==
  [][\A p \in Reqs :
       (req[p].op = "photo" /\ pc[p] = "loaded" /\ pc'[p] = "done") =>
         LET id == req[p].id
             there == HasPhoto(doc, id)
                        /\ Found(doc.items, id).photoFilename \in files
         IN /\ resp'[p].code = 200 <=> there
            /\ ~HasPhoto(doc, id) => resp'[p] = NoPhoto
            /\ (HasPhoto(doc, id) /\ ~there) =>
                 resp'[p].code # 200 /\ resp'[p] # NoPhoto]_vars

\* one FetchPhoto has returned the photo and another has reported a
\* reference whose file is missing
C16_PhotoServedAndFileMissing ==
  /\ \E p \in Reqs : pc[p] = "done" /\ req[p].op = "photo" /\ resp[p].code = 200
  /\ \E p \in Reqs :
       /\ pc[p] = "done" /\ req[p].op = "photo"
       /\ resp[p] = Response(404, "Photo file not found")

Orphans(d, fs) ==
  {f \in fs : \A i \in 1 .. Len(d.items) : d.items[i].photoFilename # f}

\* C18: once ReplacePhoto requests, run together, have all returned 200
\* and none is in flight, every file of the photo directory is referenced by
\* an item of the persisted collection (the case of the claim that needs no
\* Register or Delete; a run that leaves a reference dangling is left to C6).
C18_NoOrphanPhoto ==
  (/\ InFlight = {}
   /\ \A p \in Reqs : req[p].op \in {"none", "replace"}
   /\ \A p \in Reqs : pc[p] = "done" => resp[p].code = 200
   /\ doc.state = "valid" /\ NoDangling(doc, files))
    => Orphans(doc, files) = {}

\* C19: a Register answered 400 leaves the photo directory with the files
\* it held before the request.
C19_RejectedRegisterStoresNothing ==
  [][\A p \in Reqs :
       (/\ pc[p] = "idle" /\ pc'[p] = "done"
        /\ req'[p].op = "register" /\ resp'[p].code = 400)
         => files' = files]_vars

\* photoFilename and photoUrl are both null, or both set with photoUrl the
\* item's own "/inventory/<id>/photo"
PhotoPair(it) ==
  \/ it.photoFilename = Null /\ it.photoUrl = Null
  \/ /\ it.photoFilename # Null
     /\ it.photoUrl = "/inventory/" \o it.id \o "/photo"

IdsOf(its) == [i \in 1 .. Len(its) |-> its[i].id]

\* C20: every item of the persisted collection has photoFilename and
\* photoUrl both null or both set, photoUrl being "/inventory/<its id>/photo";
\* and no step of a handler changes the id of an item of its collection: the
\* ids stay, or one is appended (Register), or one is removed (Delete).
C20_PhotoPairAndIdsKept ==
  [][/\ \A i \in 1 .. Len(doc.items) : PhotoPair(doc.items[i])
     /\ \A i \in 1 .. Len(doc'.items) : PhotoPair(doc'.items[i])
     /\ \A p \in Reqs :
          (/\ pc[p] \in {"loaded", "unlink", "cleanup", "save", "write"}
           /\ pc'[p] \notin {pc[p], "done"}) =>
            LET a == IdsOf(items[p])
                b == IdsOf(items'[p])
            IN \/ b = a
               \/ /\ req[p].op = "register"
                  /\ Len(b) = Len(a) + 1 /\ SubSeq(b, 1, Len(a)) = a
               \/ /\ req[p].op = "delete"
                  /\ \E k \in 1 .. Len(a) :
                       b = SubSeq(a, 1, k - 1) \o SubSeq(a, k + 1, Len(a))
     /\ \A p \in Reqs :
          (pc[p] = "write" /\ pc'[p] = "done" /\ doc'.state = "valid")
            => IdsOf(doc'.items) = IdsOf(items[p])]_vars

\* a ReplacePhoto has returned 200 and the old item has a new photo file,
\* under its own URL
C20_OldItemRephotoed ==
  /\ \E p \in Reqs : pc[p] = "done" /\ req[p].op = "replace" /\ resp[p].code = 200
  /\ doc.state = "valid"
  /\ \E i \in 1 .. Len(doc.items) :
       /\ doc.items[i].id = OldItem.id
       /\ doc.items[i].photoFilename \notin {Null, OldItem.photoFilename}
       /\ doc.items[i].photoUrl = "/inventory/0/photo"

=============================================================================
